---- MODULE Spec2Model ----
(***************************************************************************)
(* Model of the generateViduVideo tool (input normalizer) and of the Vidu  *)
(* REST client createViduVideo.                                            *)
(*                                                                         *)
(* JavaScript strings are sequences of UTF-16 code units (integers).       *)
(* JavaScript values are tagged records: Undefined, Str(s), finite and     *)
(* non-finite numbers, JSON null and JSON objects.  Durations are kept in  *)
(* tenths of a second so that 8.5 is the integer 85.                       *)
(***************************************************************************)
EXTENDS Integers, Sequences, FiniteSets, TLC

VARIABLES
  env,          \* process.env: VIDU_API_KEY
  pc,           \* position of the current tool invocation
  input,        \* arguments of generateViduVideo
  options,      \* CreateViduVideoOptions handed to createViduVideo
  clientCalls,  \* calls of createViduVideo in this invocation
  payload,      \* JSON body of the outbound POST
  requests,     \* calls of fetch in this invocation
  response,     \* the upstream response: HTTP status and body
  result,       \* the ViduVideoResult returned to the caller
  error,        \* the error the invocation raised, if any
  fn, arg, ret  \* a helper function applied on its own: name, argument, outcome

toolVars ==
  <<env, pc, input, options, clientCalls, payload, requests, response, result, error>>
pureVars == <<fn, arg, ret>>
vars == <<toolVars, pureVars>>

----------------------------------------------------------------------------
(* Bounds of the explored input sets.                                      *)

MaxRawLen == 5
MaxB64Len == 5
MaxTenths == 100

----------------------------------------------------------------------------
(* JavaScript values.                                                      *)

Undefined == [t |-> "undefined"]
JsonNull == [t |-> "null"]
Str(s) == [t |-> "string", s |-> s]
Finite(tenths) == [t |-> "number", k |-> "finite", v |-> tenths]
NaN == [t |-> "number", k |-> "nan", v |-> 0]
PosInfinity == [t |-> "number", k |-> "+inf", v |-> 0]
NegInfinity == [t |-> "number", k |-> "-inf", v |-> 0]

IsString(x) == x.t = "string"
IsNumber(x) == x.t = "number"

\* Truthiness of the values used in conditions: undefined, null and "" are falsy.
Truthy(x) ==
  CASE x.t = "undefined" -> FALSE
    [] x.t = "null" -> FALSE
    [] x.t = "string" -> x.s # <<>>
    [] x.t = "number" -> x.k # "nan" /\ ~(x.k = "finite" /\ x.v = 0)
    [] OTHER -> TRUE

Strings(alphabet, n) == UNION {[1..k -> alphabet] : k \in 0..n}

----------------------------------------------------------------------------
(* Code units named by the source.                                         *)

SP == 32
LF == 10
CR == 13
LS == 8232
PS == 8233

\* The characters matched by \s in a regular expression and removed by
\* String.prototype.trim (WhiteSpace and LineTerminator of ECMAScript).
WhiteSpaceChars ==
  {9, 10, 11, 12, 13, 32, 160, 5760, 8232, 8233, 8239, 8287, 12288, 65279}
    \cup (8192..8202)

IsWhiteSpace(c) == c \in WhiteSpaceChars

RECURSIVE trimStart(_)
trimStart(s) ==
  IF s = <<>> THEN s
  ELSE IF IsWhiteSpace(Head(s)) THEN trimStart(Tail(s)) ELSE s

RECURSIVE trimEnd(_)
trimEnd(s) ==
  IF s = <<>> THEN s
  ELSE IF IsWhiteSpace(s[Len(s)]) THEN trimEnd(SubSeq(s, 1, Len(s) - 1)) ELSE s

trim(s) == trimEnd(trimStart(s))

\* ASCII part of String.prototype.toLowerCase.
LowerChar(c) == IF c \in 65..90 THEN c + 32 ELSE c

toLowerCase(s) == [i \in 1..Len(s) |-> LowerChar(s[i])]

startsWith(s, prefix) ==
  Len(s) >= Len(prefix) /\ SubSeq(s, 1, Len(prefix)) = prefix

----------------------------------------------------------------------------
(* cleanPromptForVidu                                                      *)

\* .replace(/[\u2028\u2029]/g, " ")
replaceSeparators(s) ==
  [i \in 1..Len(s) |-> IF s[i] \in {LS, PS} THEN SP ELSE s[i]]

\* .replace(/\r?\n/g, " ")
RECURSIVE replaceNewlines(_)
replaceNewlines(s) ==
  IF s = <<>> THEN <<>>
  ELSE IF Head(s) = CR /\ Len(s) >= 2 /\ s[2] = LF
    THEN <<SP>> \o replaceNewlines(SubSeq(s, 3, Len(s)))
  ELSE IF Head(s) = LF THEN <<SP>> \o replaceNewlines(Tail(s))
  ELSE <<Head(s)>> \o replaceNewlines(Tail(s))

\* .replace(/\s+/g, " ")
RECURSIVE collapseWhitespace(_)
collapseWhitespace(s) ==
  IF s = <<>> THEN <<>>
  ELSE IF IsWhiteSpace(Head(s))
    THEN <<SP>> \o collapseWhitespace(trimStart(Tail(s)))
  ELSE <<Head(s)>> \o collapseWhitespace(Tail(s))

\* Faulty variant: the whitespace collapse is left out.
cleanPromptNoCollapse(raw) == trim(replaceNewlines(replaceSeparators(raw)))

cleanPromptForVidu(raw) ==
  trim(collapseWhitespace(replaceNewlines(replaceSeparators(raw))))

----------------------------------------------------------------------------
(* clampDuration                                                           *)

MIN_DURATION_SECONDS == 1
MAX_DURATION_SECONDS == 8
DEFAULT_DURATION_SECONDS == 4

Seconds(n) == Finite(n * 10)

NumberIsNaN(x) == IsNumber(x) /\ x.k = "nan"
NumberIsFinite(x) == IsNumber(x) /\ x.k = "finite"

MathMax(a, b) ==
  CASE a.k = "nan" \/ b.k = "nan" -> NaN
    [] a.k = "+inf" \/ b.k = "+inf" -> PosInfinity
    [] a.k = "-inf" -> b
    [] b.k = "-inf" -> a
    [] OTHER -> IF a.v >= b.v THEN a ELSE b

MathMin(a, b) ==
  CASE a.k = "nan" \/ b.k = "nan" -> NaN
    [] a.k = "-inf" \/ b.k = "-inf" -> NegInfinity
    [] a.k = "+inf" -> b
    [] b.k = "+inf" -> a
    [] OTHER -> IF a.v <= b.v THEN a ELSE b

\* Faulty variant: no Number.isFinite test.
clampDurationNoFiniteCheck(value) ==
  IF ~IsNumber(value) \/ NumberIsNaN(value)
    THEN Seconds(DEFAULT_DURATION_SECONDS)
    ELSE MathMin(Seconds(MAX_DURATION_SECONDS),
                 MathMax(Seconds(MIN_DURATION_SECONDS), value))

clampDuration(value) ==
  IF ~IsNumber(value) \/ NumberIsNaN(value) \/ ~NumberIsFinite(value)
    THEN Seconds(DEFAULT_DURATION_SECONDS)
    ELSE MathMin(Seconds(MAX_DURATION_SECONDS),
                 MathMax(Seconds(MIN_DURATION_SECONDS), value))

----------------------------------------------------------------------------
(* Buffer.from(text, "base64").toString("utf8")                            *)

\* Value of a base64 character (standard and URL-safe alphabets); 64 when
\* the character is not a base64 digit.
unbase64(c) ==
  CASE c \in 65..90 -> c - 65
    [] c \in 97..122 -> c - 71
    [] c \in 48..57 -> c + 4
    [] c \in {43, 45} -> 62
    [] c \in {47, 95} -> 63
    [] OTHER -> 64

\* The digits read by the decoder: it skips characters that are not base64
\* digits and stops at the first "=".
RECURSIVE base64Digits(_)
base64Digits(s) ==
  IF s = <<>> THEN <<>>
  ELSE IF Head(s) = 61 THEN <<>>
  ELSE IF unbase64(Head(s)) < 64
    THEN <<unbase64(Head(s))>> \o base64Digits(Tail(s))
  ELSE base64Digits(Tail(s))

\* Four digits give three bytes; a tail of two gives one byte, of three two
\* bytes, and a single trailing digit gives none.
RECURSIVE bytesOfDigits(_)
bytesOfDigits(d) ==
  IF Len(d) < 2 THEN <<>>
  ELSE IF Len(d) = 2 THEN <<d[1] * 4 + d[2] \div 16>>
  ELSE IF Len(d) = 3
    THEN <<d[1] * 4 + d[2] \div 16, (d[2] % 16) * 16 + d[3] \div 4>>
  ELSE <<d[1] * 4 + d[2] \div 16,
         (d[2] % 16) * 16 + d[3] \div 4,
         (d[3] % 4) * 64 + d[4]>> \o bytesOfDigits(SubSeq(d, 5, Len(d)))

base64Decode(s) == bytesOfDigits(base64Digits(s))

REPLACEMENT == 65533

IsCont(b) == b \in 128..191

\* Allowed range of the second byte after lead byte b (well-formed UTF-8).
SecondByteOk(b, b2) ==
  CASE b = 224 -> b2 \in 160..191
    [] b = 237 -> b2 \in 128..159
    [] b = 240 -> b2 \in 144..191
    [] b = 244 -> b2 \in 128..143
    [] OTHER -> IsCont(b2)

\* UTF-16 code units of a code point.
codeUnits(cp) ==
  IF cp < 65536 THEN <<cp>>
  ELSE <<55296 + ((cp - 65536) \div 1024), 56320 + ((cp - 65536) % 1024)>>

\* Decoding with replacement of each maximal ill-formed subpart by U+FFFD;
\* it never throws.
RECURSIVE utf8Decode(_)
utf8Decode(b) ==
  IF b = <<>> THEN <<>>
  ELSE LET n == Len(b)
           rest(k) == utf8Decode(SubSeq(b, k + 1, n))
           bad(k) == <<REPLACEMENT>> \o rest(k)
       IN
    IF b[1] < 128 THEN <<b[1]>> \o rest(1)
    ELSE IF b[1] \in 194..223 THEN
      IF n >= 2 /\ IsCont(b[2])
        THEN codeUnits((b[1] - 192) * 64 + (b[2] - 128)) \o rest(2)
        ELSE bad(1)
    ELSE IF b[1] \in 224..239 THEN
      IF ~(n >= 2 /\ SecondByteOk(b[1], b[2])) THEN bad(1)
      ELSE IF ~(n >= 3 /\ IsCont(b[3])) THEN bad(2)
      ELSE codeUnits((b[1] - 224) * 4096 + (b[2] - 128) * 64 + (b[3] - 128))
             \o rest(3)
    ELSE IF b[1] \in 240..244 THEN
      IF ~(n >= 2 /\ SecondByteOk(b[1], b[2])) THEN bad(1)
      ELSE IF ~(n >= 3 /\ IsCont(b[3])) THEN bad(2)
      ELSE IF ~(n >= 4 /\ IsCont(b[4])) THEN bad(3)
      ELSE codeUnits((b[1] - 240) * 262144 + (b[2] - 128) * 4096
                       + (b[3] - 128) * 64 + (b[4] - 128)) \o rest(4)
    ELSE bad(1)

----------------------------------------------------------------------------
(* resolvePrompt                                                           *)

Returned(v) == [threw |-> FALSE, value |-> v]
Threw(e) == [threw |-> TRUE, error |-> e]

\* Errors by the message they carry.
PromptDecodeError == "Failed to decode promptBase64. Ensure it is valid base64."
MissingPromptError == "Provide either promptBase64 or prompt."
EmptyPromptError == "Prompt cannot be empty"

PromptBase64Given(in) == Truthy(in.promptBase64)

\* Faulty variant: a blank decoding falls back to the prompt field.
resolvePromptFallsBack(in) ==
  LET decoded == utf8Decode(base64Decode(in.promptBase64.s)) IN
  IF PromptBase64Given(in) /\ trim(decoded) # <<>> THEN Returned(decoded)
  ELSE IF IsString(in.prompt) /\ Len(trim(in.prompt.s)) > 0
    THEN Returned(in.prompt.s)
  ELSE IF PromptBase64Given(in) THEN Threw(PromptDecodeError)
  ELSE Threw(MissingPromptError)

resolvePrompt(in) ==
  IF PromptBase64Given(in) THEN
    LET decoded == utf8Decode(base64Decode(in.promptBase64.s)) IN
    IF Len(trim(decoded)) = 0 THEN Threw(PromptDecodeError)
    ELSE Returned(decoded)
  ELSE IF IsString(in.prompt) /\ Len(trim(in.prompt.s)) > 0
    THEN Returned(in.prompt.s)
  ELSE Threw(MissingPromptError)

----------------------------------------------------------------------------
(* generateViduVideo: the normalizer                                       *)

DEFAULT_ASPECT_RATIO == <<49, 54, 58, 57>>                    \* "16:9"

\* Faulty variant: an empty string is kept.
trimOrUndefinedKeepsEmpty(x) ==
  IF ~IsString(x) THEN Undefined ELSE Str(trim(x.s))

\* x?.trim() || undefined
trimOrUndefined(x) ==
  IF ~IsString(x) THEN Undefined
  ELSE IF trim(x.s) = <<>> THEN Undefined ELSE Str(trim(x.s))

\* x ?? DEFAULT_ASPECT_RATIO
aspectRatioOrDefault(x) ==
  IF x = Undefined \/ x = JsonNull THEN Str(DEFAULT_ASPECT_RATIO) ELSE x

\* Lines 83-92: the options built for the client, or the error thrown.
normalize(in) ==
  LET rawPrompt == resolvePrompt(in) IN
  IF rawPrompt.threw THEN rawPrompt
  ELSE LET prompt == cleanPromptForVidu(rawPrompt.value) IN
    IF prompt = <<>> THEN Threw(EmptyPromptError)
    ELSE Returned([prompt |-> Str(prompt),
                   durationSeconds |-> clampDuration(in.durationSeconds),
                   aspectRatio |-> aspectRatioOrDefault(in.aspectRatio),
                   style |-> trimOrUndefined(in.style),
                   referenceImageUrl |-> trimOrUndefined(in.referenceImageUrl)])

----------------------------------------------------------------------------
(* createViduVideo: the client                                             *)

ConfigError == "VIDU_API_KEY is not set in the environment"
FetchError == "fetch failed"
NoError == "none"

\* Faulty variant: only an absent key is refused.
HasApiKeyUnlessUndefined(e) == e.VIDU_API_KEY # Undefined

\* if (!apiKey) throw
HasApiKey(e) == Truthy(e.VIDU_API_KEY)

\* Lines 46-60.  JSON.stringify leaves out the keys that are undefined.
buildPayload(o) ==
  [prompt |-> o.prompt,
   duration |-> o.durationSeconds,
   aspect_ratio |-> o.aspectRatio,
   style |-> IF IsString(o.style) /\ trim(o.style.s) # <<>>
               THEN Str(trim(o.style.s)) ELSE Undefined,
   reference_image_url |-> IF Truthy(o.referenceImageUrl)
                             THEN o.referenceImageUrl ELSE Undefined]

\* A response body as received: text that JSON.parse rejects, or the value
\* it parses to.
Unparseable == [t |-> "unparseable"]

ResponseKeys ==
  {"video_url", "videoUrl", "output_url", "outputUrl",
   "preview_image_url", "previewImageUrl", "thumbnail_url", "thumbnail",
   "job_id", "jobId", "id", "status"}

\* A JSON object: its value under each key the client reads, Undefined where
\* the key is absent.
Obj(f) == [t |-> "object", o |-> f]
EmptyObject == Obj([k \in ResponseKeys |-> Undefined])

\* try { responseBody = await response.json() } catch { responseBody = undefined }
parseBody(body) == IF body = Unparseable THEN Undefined ELSE body

\* response.ok
\* Faulty variant: redirections count as success.
ResponseOkBelow400(status) == status \in 200..399

ResponseOk(status) == status \in 200..299

\* responseBody ?? {}
\* Faulty variant: no default for an absent body.
orEmptyObjectIdentity(responseBody) == responseBody

orEmptyObject(responseBody) ==
  IF responseBody = Undefined \/ responseBody = JsonNull
    THEN EmptyObject ELSE responseBody

\* source[key]
getKey(source, key) == IF source.t = "object" THEN source.o[key] ELSE Undefined

RECURSIVE extractString(_, _)
extractString(source, keys) ==
  IF keys = <<>> THEN <<>>
  ELSE LET value == getKey(source, Head(keys)) IN
    IF IsString(value) /\ Len(trim(value.s)) > 0 THEN value.s
    ELSE extractString(source, Tail(keys))

VideoUrlKeys == <<"video_url", "videoUrl", "output_url", "outputUrl">>
PreviewKeys ==
  <<"preview_image_url", "previewImageUrl", "thumbnail_url", "thumbnail">>
JobIdKeys == <<"job_id", "jobId", "id">>

COMPLETE == <<99, 111, 109, 112, 108, 101, 116, 101>>         \* "complete"
FAIL == <<102, 97, 105, 108>>                                  \* "fail"
ERROR == <<101, 114, 114, 111, 114>>                           \* "error"

\* Faulty variant: exact comparison instead of a prefix.
mapStatusExact(rawStatus, videoUrl) ==
  IF rawStatus # <<>> THEN
    LET normalized == toLowerCase(rawStatus) IN
    IF normalized = COMPLETE THEN "completed"
    ELSE IF normalized = FAIL \/ normalized = ERROR THEN "failed"
    ELSE "queued"
  ELSE IF videoUrl # <<>> THEN "completed"
  ELSE "queued"

\* Faulty variant: completed without looking at the video URL.
mapStatusCompletedDefault(rawStatus, videoUrl) ==
  IF rawStatus # <<>> THEN
    LET normalized == toLowerCase(rawStatus) IN
    IF startsWith(normalized, COMPLETE) THEN "completed"
    ELSE IF startsWith(normalized, FAIL) \/ normalized = ERROR THEN "failed"
    ELSE "queued"
  ELSE "completed"

\* Lines 108-121.
mapStatus(rawStatus, videoUrl) ==
  IF rawStatus # <<>> THEN
    LET normalized == toLowerCase(rawStatus) IN
    IF startsWith(normalized, COMPLETE) THEN "completed"
    ELSE IF startsWith(normalized, FAIL) \/ normalized = ERROR THEN "failed"
    ELSE "queued"
  ELSE IF videoUrl # <<>> THEN "completed"
  ELSE "queued"

\* Lines 71-129: from the response to the result.
handleResponse(resp) ==
  LET responseBody == parseBody(resp.body) IN
  IF ~ResponseOk(resp.status) THEN
    [videoUrl |-> <<>>, status |-> "failed", previewImageUrl |-> Undefined,
     jobId |-> Undefined, rawResponse |-> responseBody]
  ELSE
    LET parsed == orEmptyObject(responseBody)
        videoUrl == extractString(parsed, VideoUrlKeys)
    IN [videoUrl |-> videoUrl,
        status |-> mapStatus(extractString(parsed, <<"status">>), videoUrl),
        previewImageUrl |-> Str(extractString(parsed, PreviewKeys)),
        jobId |-> Str(extractString(parsed, JobIdKeys)),
        rawResponse |-> parsed]

----------------------------------------------------------------------------
(* One tool invocation.                                                    *)

None == [t |-> "none"]

ToolIdle ==
  /\ pc = "idle"
  /\ input = None /\ options = None /\ payload = None
  /\ response = None /\ result = None
  /\ clientCalls = 0 /\ requests = 0 /\ error = NoError

PureIdle == fn = "none" /\ arg = None /\ ret = None

\* generateViduVideo up to its await: the normalizer, then createViduVideo up
\* to the call of fetch.
GenerateViduVideo(Inputs) ==
  /\ pc = "idle"
  /\ \E in \in Inputs :
       LET n == normalize(in) IN
       /\ input' = in
       /\ IF n.threw THEN
            /\ error' = n.error
            /\ pc' = "done"
            /\ UNCHANGED <<options, clientCalls, payload, requests>>
          ELSE
            /\ options' = n.value
            /\ clientCalls' = clientCalls + 1
            /\ IF ~HasApiKey(env) THEN
                 /\ error' = ConfigError
                 /\ pc' = "done"
                 /\ UNCHANGED <<payload, requests>>
               ELSE
                 /\ payload' = buildPayload(n.value)
                 /\ requests' = requests + 1
                 /\ pc' = "fetching"
                 /\ UNCHANGED error
  /\ UNCHANGED <<env, response, result, pureVars>>

\* The upstream answers: any HTTP status, any body.
FetchResolves(Responses) ==
  /\ pc = "fetching"
  /\ \E r \in Responses : response' = r
  /\ pc' = "responded"
  /\ UNCHANGED <<env, input, options, clientCalls, payload, requests, result,
                 error, pureVars>>

\* The transport fails: the promise of fetch rejects and nothing catches it.
FetchRejects ==
  /\ pc = "fetching"
  /\ error' = FetchError
  /\ pc' = "done"
  /\ UNCHANGED <<env, input, options, clientCalls, payload, requests, response,
                 result, pureVars>>

\* createViduVideo after its awaits: the body is parsed and mapped.
CreateViduVideoResume ==
  /\ pc = "responded"
  /\ result' = handleResponse(response)
  /\ pc' = "done"
  /\ UNCHANGED <<env, input, options, clientCalls, payload, requests, response,
                 error, pureVars>>

\* The invocation is over; the next one starts from nothing.
Return ==
  /\ pc = "done"
  /\ pc' = "idle"
  /\ input' = None /\ options' = None /\ payload' = None
  /\ response' = None /\ result' = None
  /\ clientCalls' = 0 /\ requests' = 0 /\ error' = NoError
  /\ UNCHANGED <<env, pureVars>>

----------------------------------------------------------------------------
(* The tool's input schema (zod).  URL syntax is not modelled: a reference *)
(* image URL is any non-blank string.                                      *)

IsDigit(c) == c \in 48..57

\* ASPECT_RATIO_PATTERN = /^\d+:\d+$/
AspectRatioPattern(s) ==
  \E i \in 2..(Len(s) - 1) :
    /\ s[i] = 58
    /\ \A j \in 1..Len(s) : j # i => IsDigit(s[j])

\* /^[A-Za-z0-9+/=]+$/
Base64Pattern(s) ==
  /\ s # <<>>
  /\ \A i \in 1..Len(s) :
       s[i] \in (65..90) \cup (97..122) \cup (48..57) \cup {43, 47, 61}

Optional(x, ok) == x = Undefined \/ ok

schema(in) ==
  /\ Optional(in.prompt, IsString(in.prompt) /\ Len(in.prompt.s) >= 1)
  /\ Optional(in.promptBase64,
              IsString(in.promptBase64) /\ Base64Pattern(in.promptBase64.s))
  /\ Optional(in.durationSeconds,
              IsNumber(in.durationSeconds) /\ ~NumberIsNaN(in.durationSeconds))
  /\ Optional(in.aspectRatio,
              IsString(in.aspectRatio) /\ AspectRatioPattern(in.aspectRatio.s))
  /\ Optional(in.style, IsString(in.style) /\ Len(in.style.s) >= 1)
  /\ Optional(in.referenceImageUrl,
              IsString(in.referenceImageUrl)
                /\ trim(in.referenceImageUrl.s) # <<>>)

----------------------------------------------------------------------------
(* The explored inputs.                                                    *)

ApiKeys == {Undefined, Str(<<>>), Str(<<107, 101, 121>>)}      \* "key"

Blank == <<32, 32>>
VideoUrl1 == <<104, 116, 116, 112, 115, 58, 47, 47, 120, 47, 121, 46, 109, 112, 52>>
VideoUrl2 == <<104, 116, 116, 112, 115, 58, 47, 47, 120, 47, 122, 46, 109, 112, 52>>
ThumbUrl == <<104, 116, 116, 112, 115, 58, 47, 47, 120, 47, 116, 46, 112, 110, 103>>
RefUrl == <<104, 116, 116, 112, 115, 58, 47, 47, 120, 47, 114, 46, 112, 110, 103>>
Job1 == <<106, 111, 98, 45, 49>>
Job2 == <<106, 111, 98, 45, 50>>
FAILED_TIMEOUT == <<70, 65, 73, 76, 69, 68, 95, 84, 73, 77, 69, 79, 85, 84>>
Processing == <<80, 114, 111, 99, 101, 115, 115, 105, 110, 103>>
COMPLETED == <<67, 79, 77, 80, 76, 69, 84, 69, 68>>
Errors == <<101, 114, 114, 111, 114, 115>>
ERROR_UPPER == <<69, 82, 82, 79, 82>>
SpaceComplete == <<32, 99, 111, 109, 112, 108, 101, 116, 101>>

PromptPlain == <<97, 32, 98>>                                  \* "a b"
PromptMessy == <<32, 97, 8232, 13, 10, 13, 98, 32, 32>>
B64Blank == <<73, 65, 61, 61>>                                 \* "IA==": " "
B64Plain == <<81, 83, 66, 67>>                                 \* "QSBC": "A B"
B64Separator == <<52, 111, 67, 111, 81, 81, 61, 61>>           \* "4oCoQQ==": U+2028 "A"
B64Nbsp == <<119, 113, 65, 61>>                                \* "wqA=": U+00A0
Ratio916 == <<57, 58, 49, 54>>                                 \* "9:16"
Ratio16x9 == <<49, 54, 120, 57>>                               \* "16x9"
StylePadded == <<32, 97, 110, 105, 109, 101, 32>>              \* " anime "

ToolInput(p, b, d, a, s, r) ==
  [prompt |-> p, promptBase64 |-> b, durationSeconds |-> d,
   aspectRatio |-> a, style |-> s, referenceImageUrl |-> r]

\* Every combination of a few values per field, the schema-invalid ones
\* removed as the hosting framework removes them.
ToolInputs ==
  {in \in {ToolInput(p, b, d, a, s, r) :
             p \in {Undefined, Str(<<>>), Str(<<SP>>), Str(PromptPlain), Str(PromptMessy)},
             b \in {Undefined, Str(B64Blank), Str(B64Plain), Str(B64Separator), Str(B64Nbsp)},
             d \in {Undefined, NaN, PosInfinity, Finite(0), Finite(35), Finite(85)},
             a \in {Undefined, Str(Ratio916), Str(Ratio16x9)},
             s \in {Undefined, Str(<<>>), Str(<<SP>>), Str(StylePadded)},
             r \in {Undefined, Str(RefUrl), Str(<<SP>> \o RefUrl \o <<SP>>)}} :
     schema(in)}

\* A few invocations for the runs that explore the responses.
ClientInputs ==
  {ToolInput(Str(PromptPlain), Undefined, Undefined, Undefined, Undefined, Undefined),
   ToolInput(Undefined, Str(B64Plain), Finite(85), Str(Ratio916), Str(StylePadded), Str(RefUrl)),
   ToolInput(Str(<<SP>>), Undefined, Undefined, Undefined, Undefined, Undefined),
   ToolInput(Str(PromptPlain), Str(B64Blank), Undefined, Undefined, Undefined, Undefined)}

StatusCodes == {200, 201, 299, 300, 404, 500}

\* A JSON object from its members (key, value).
MkObject(members) ==
  Obj([k \in ResponseKeys |->
         IF \E m \in members : m[1] = k
           THEN (CHOOSE m \in members : m[1] = k)[2]
           ELSE Undefined])

VideoMembers ==
  {{},
   {<<"video_url", Str(VideoUrl1)>>},
   {<<"videoUrl", Str(VideoUrl2)>>},
   {<<"video_url", Str(VideoUrl1)>>, <<"videoUrl", Str(VideoUrl2)>>},
   {<<"video_url", Str(Blank)>>, <<"outputUrl", Str(VideoUrl2)>>},
   {<<"video_url", Finite(10)>>, <<"output_url", Str(VideoUrl1)>>},
   {<<"video_url", Str(<<>>)>>}}

StatusMembers ==
  {{}} \cup
  {{<<"status", v>>} :
     v \in {Str(FAILED_TIMEOUT), Str(Processing), Str(COMPLETE), Str(COMPLETED),
            Str(FAIL), Str(ERROR), Str(ERROR_UPPER), Str(Errors),
            Str(SpaceComplete), Str(Blank), Finite(10), JsonNull}}

JobMembers ==
  {{}, {<<"job_id", Str(Job1)>>}, {<<"jobId", Str(Job2)>>, <<"id", Str(Job1)>>}}

PreviewMembers == {{}, {<<"thumbnail", Str(ThumbUrl)>>}}

Bodies ==
  {Unparseable, JsonNull, Str(COMPLETE), Finite(10)} \cup
  {MkObject(v \cup s \cup j \cup p) :
     v \in VideoMembers, s \in StatusMembers, j \in JobMembers, p \in PreviewMembers}

Responses == [status : StatusCodes, body : Bodies]

FewResponses ==
  [status : {200, 500},
   body : {Unparseable, MkObject({<<"video_url", Str(VideoUrl1)>>})}]

----------------------------------------------------------------------------
(* Specifications.                                                         *)

Init ==
  /\ env \in [VIDU_API_KEY : ApiKeys]
  /\ ToolIdle
  /\ PureIdle

NextOver(Inputs, Resps) ==
  \/ GenerateViduVideo(Inputs)
  \/ FetchResolves(Resps)
  \/ FetchRejects
  \/ CreateViduVideoResume
  \/ Return

\* Few inputs, every response.
Next == NextOver(ClientInputs, Responses)
Spec == Init /\ [][Next]_vars

\* Every input, few responses.
NextTool == NextOver(ToolInputs, FewResponses)
SpecTool == Init /\ [][NextTool]_vars

----------------------------------------------------------------------------
(* The helper functions applied on their own to every input of a bounded   *)
(* set.                                                                    *)

CleanAlphabet == {97, SP, LF, CR, LS, PS, 160}
Base64Alphabet == {73, 65, 81, 119, 113, 61}                   \* I A Q w q =

RawPrompts == {Str(s) : s \in Strings(CleanAlphabet, MaxRawLen)}

DurationValues ==
  {Undefined, NaN, PosInfinity, NegInfinity}
    \cup {Finite(v) : v \in (0 - MaxTenths)..MaxTenths}

PromptInputs ==
  {ToolInput(p, b, Undefined, Undefined, Undefined, Undefined) :
     p \in {Undefined, Str(<<SP>>), Str(<<97>>), Str(<<SP, LF>>), Str(PromptMessy)},
     b \in {Undefined} \cup
           {Str(s) : s \in Strings(Base64Alphabet, MaxB64Len) \ {<<>>}}}

InitPure ==
  /\ env = [VIDU_API_KEY |-> Undefined]
  /\ ToolIdle
  /\ ret = None
  /\ \/ fn = "cleanPromptForVidu" /\ arg \in RawPrompts
     \/ fn = "clampDuration" /\ arg \in DurationValues
     \/ fn = "resolvePrompt" /\ arg \in PromptInputs

ApplyCleanPrompt ==
  /\ fn = "cleanPromptForVidu" /\ ret = None
  /\ ret' = Returned(Str(cleanPromptForVidu(arg.s)))
  /\ UNCHANGED <<toolVars, fn, arg>>

ApplyClampDuration ==
  /\ fn = "clampDuration" /\ ret = None
  /\ ret' = Returned(clampDuration(arg))
  /\ UNCHANGED <<toolVars, fn, arg>>

ApplyResolvePrompt ==
  /\ fn = "resolvePrompt" /\ ret = None
  /\ ret' = resolvePrompt(arg)
  /\ UNCHANGED <<toolVars, fn, arg>>

NextPure == ApplyCleanPrompt \/ ApplyClampDuration \/ ApplyResolvePrompt
SpecPure == InitPure /\ [][NextPure]_vars

----------------------------------------------------------------------------
(* Properties.                                                             *)

HttpSuccess == response.status \in 200..299
Answered == pc = "done" /\ response # None
NormalizerErrors == {PromptDecodeError, MissingPromptError, EmptyPromptError}
KeySet == env.VIDU_API_KEY \notin {Undefined, Str(<<>>)}
NonBlank(s) == \E i \in 1..Len(s) : ~IsWhiteSpace(s[i])

\* The non-blank string the body holds under "status", <<>> when none.
RawStatus(body) ==
  IF body.t = "object" /\ body.o.status.t = "string" /\ NonBlank(body.o.status.s)
    THEN body.o.status.s ELSE <<>>

\* The status a raw status string stands for.
StatusOfRaw(raw) ==
  LET low == toLowerCase(raw) IN
  IF Len(low) >= 8 /\ SubSeq(low, 1, 8) = COMPLETE THEN "completed"
  ELSE IF (Len(low) >= 4 /\ SubSeq(low, 1, 4) = FAIL) \/ low = ERROR THEN "failed"
  ELSE "queued"

\* No line or paragraph separator, no CR or LF, no two spaces in a row, no
\* whitespace at either end.
Sanitized(s) ==
  /\ \A i \in 1..Len(s) : s[i] \notin {LS, PS, LF, CR}
  /\ \A i \in 1..(Len(s) - 1) : ~(s[i] = SP /\ s[i + 1] = SP)
  /\ s # <<>> => ~IsWhiteSpace(s[1]) /\ ~IsWhiteSpace(s[Len(s)])

\* Absent, or a non-empty string with no whitespace at either end.
TrimmedOrAbsent(x) ==
  x = Undefined \/ (IsString(x) /\ x.s # <<>> /\ ~IsWhiteSpace(x.s[1])
                      /\ ~IsWhiteSpace(x.s[Len(x.s)]))

\* C1: a response whose HTTP status is outside 200..299 never raises and gives
\* videoUrl "" and status failed whatever the body; rawResponse is the parsed
\* body, undefined when the body does not parse.
C1_NonSuccessIsFailed ==
  (Answered /\ ~HttpSuccess) =>
    /\ error = NoError
    /\ result # None
    /\ result.videoUrl = <<>>
    /\ result.status = "failed"
    /\ result.rawResponse =
         (IF response.body = Unparseable THEN Undefined ELSE response.body)

C1_Witness ==
  /\ Answered
  /\ response.status = 500
  /\ response.body.t = "object"
  /\ response.body.o.video_url = Str(VideoUrl1)
  /\ response.body.o.status = Str(COMPLETE)
  /\ result # None /\ result.status = "failed" /\ result.videoUrl = <<>>

\* C2: on a 2xx response the status is that of the raw status string when the
\* body has a non-blank one (completed on the prefix "complete", failed on the
\* prefix "fail" or on "error", queued otherwise, whether or not a video URL
\* was extracted), and otherwise completed when a video URL was extracted and
\* queued when none was.
C2_StatusMapping ==
  (Answered /\ HttpSuccess) =>
    LET raw == RawStatus(response.body) IN
    /\ error = NoError /\ result # None
    /\ raw # <<>> => result.status = StatusOfRaw(raw)
    /\ raw = <<>> =>
         result.status = (IF result.videoUrl # <<>> THEN "completed" ELSE "queued")
    /\ raw = FAILED_TIMEOUT => result.status = "failed"
    /\ raw = Processing => result.status = "queued"
    /\ response.body = MkObject({<<"video_url", Str(VideoUrl1)>>}) =>
         result.status = "completed" /\ result.videoUrl = VideoUrl1

C2_Witness ==
  /\ Answered
  /\ response.status = 200
  /\ response.body.t = "object"
  /\ response.body.o.status = Str(FAILED_TIMEOUT)
  /\ response.body.o.video_url = Str(VideoUrl1)
  /\ result # None /\ result.status = "failed" /\ result.videoUrl = VideoUrl1

\* C3: an upstream failure, a non-2xx status or a body that does not parse,
\* is never raised and gives a result whose status is failed, for every HTTP
\* status.
C3_UpstreamFailureIsFailed ==
  (Answered /\ (~HttpSuccess \/ response.body = Unparseable)) =>
    /\ error = NoError
    /\ result # None
    /\ result.status = "failed"

\* C4: an invocation of the client issues no request when VIDU_API_KEY is
\* absent or empty, and raises the configuration error; otherwise it issues
\* exactly one, whatever the response.
C4_RequestCount ==
  /\ requests <= 1
  /\ clientCalls >= 1 =>
       /\ ~KeySet => requests = 0 /\ error = ConfigError /\ pc = "done"
       /\ KeySet => requests = 1
  /\ clientCalls = 0 => requests = 0

C4_Witness ==
  /\ Answered
  /\ response.status = 500
  /\ result # None
  /\ clientCalls = 1
  /\ requests = 1

\* C8: in every result rawResponse is the full parsed body, or an empty
\* object when the body does not parse.
C8_RawResponseParsedOrEmpty ==
  (Answered /\ result # None) =>
    result.rawResponse =
      (IF response.body = Unparseable THEN EmptyObject ELSE response.body)

\* C8 as amended: on a 2xx response rawResponse is the parsed body, or an
\* empty object when the body does not parse or is JSON null; on any other
\* response it is the parsed body, or undefined when the body does not parse.
C8_RawResponseByPath ==
  (Answered /\ result # None) =>
    /\ HttpSuccess =>
         result.rawResponse =
           (IF response.body \in {Unparseable, JsonNull}
              THEN EmptyObject ELSE response.body)
    /\ ~HttpSuccess =>
         result.rawResponse =
           (IF response.body = Unparseable THEN Undefined ELSE response.body)

C8_Witness ==
  /\ Answered
  /\ response.status = 404
  /\ response.body = Unparseable
  /\ result # None /\ result.rawResponse = Undefined

\* C9: in every result status is one of queued, completed, failed, and
\* videoUrl is empty only when status is failed.
C9_EmptyUrlOnlyWhenFailed ==
  (Answered /\ result # None) =>
    /\ result.status \in {"queued", "completed", "failed"}
    /\ result.videoUrl = <<>> => result.status = "failed"

\* C9 as amended: status is one of queued, completed, failed; outside 2xx
\* videoUrl is empty and status is failed; on a 2xx response with an empty
\* videoUrl the status is that of the raw status string, and queued when the
\* body has none.
C9_EmptyUrlStatus ==
  (Answered /\ result # None) =>
    /\ result.status \in {"queued", "completed", "failed"}
    /\ ~HttpSuccess => result.videoUrl = <<>> /\ result.status = "failed"
    /\ (HttpSuccess /\ result.videoUrl = <<>>) =>
         result.status =
           (IF RawStatus(response.body) = <<>> THEN "queued"
            ELSE StatusOfRaw(RawStatus(response.body)))

C9_Witness ==
  /\ Answered
  /\ response.status = 200
  /\ response.body.t = "object"
  /\ response.body.o.status = Str(Processing)
  /\ result # None /\ result.videoUrl = <<>> /\ result.status = "queued"

\* C10: the request handed to the client has a non-empty sanitized prompt, a
\* duration within [1, 8], an aspect ratio <digits>:<digits> (16:9 when the
\* input gave none, the input's otherwise), and a style and a reference image
\* URL that are absent or non-empty and trimmed; an empty-after-trim value
\* does not reach the payload; the client is not called when normalization
\* fails.
C10_RequestValid ==
  /\ options # None =>
       /\ IsString(options.prompt) /\ options.prompt.s # <<>>
       /\ Sanitized(options.prompt.s)
       /\ options.durationSeconds \in {Finite(v) : v \in 10..80}
       /\ options.aspectRatio =
            (IF input.aspectRatio = Undefined THEN Str(<<49, 54, 58, 57>>)
             ELSE input.aspectRatio)
       /\ AspectRatioPattern(options.aspectRatio.s)
       /\ TrimmedOrAbsent(options.style)
       /\ TrimmedOrAbsent(options.referenceImageUrl)
  /\ payload # None =>
       /\ payload.prompt = options.prompt
       /\ payload.duration = options.durationSeconds
       /\ payload.aspect_ratio = options.aspectRatio
       /\ TrimmedOrAbsent(payload.style)
       /\ TrimmedOrAbsent(payload.reference_image_url)
       /\ ~NonBlank(IF IsString(input.style) THEN input.style.s ELSE <<>>)
            => payload.style = Undefined
  /\ clientCalls > 0 => options # None
  /\ error \in NormalizerErrors =>
       clientCalls = 0 /\ options = None /\ payload = None /\ requests = 0

C10_Witness ==
  /\ pc = "fetching"
  /\ input.promptBase64 = Str(B64Separator)
  /\ input.style = Str(<<SP>>)
  /\ input.aspectRatio = Undefined
  /\ input.durationSeconds = Finite(85)
  /\ options.prompt = Str(<<65>>)
  /\ options.style = Undefined
  /\ payload.style = Undefined

----------------------------------------------------------------------------
(* Properties of the helper functions.                                     *)

Applied(f) == fn = f /\ ret # None

\* C5: promptBase64, when present, wins: the prompt is its UTF-8 decoding, and
\* a decoding that is empty or whitespace-only is a decoding error even when
\* the prompt field is non-blank; otherwise a non-blank prompt is used
\* verbatim; otherwise the missing-prompt error is raised.
C5_PromptResolution ==
  Applied("resolvePrompt") =>
    LET b == arg.promptBase64
        p == arg.prompt
        decoded == utf8Decode(base64Decode(b.s))
        promptBlank == p = Undefined \/ ~NonBlank(p.s)
    IN
    /\ (b # Undefined /\ NonBlank(decoded)) => ret = Returned(decoded)
    /\ (b # Undefined /\ ~NonBlank(decoded)) => ret = Threw(PromptDecodeError)
    /\ (b = Undefined /\ ~promptBlank) => ret = Returned(p.s)
    /\ (b = Undefined /\ promptBlank) => ret = Threw(MissingPromptError)
    /\ b = Str(B64Blank) => ret = Threw(PromptDecodeError)
    /\ b = Str(<<81, 81, 61, 61>>) => ret = Returned(<<65>>)

C5_Witness ==
  /\ Applied("resolvePrompt")
  /\ arg.promptBase64 = Str(B64Blank)
  /\ arg.prompt = Str(<<97>>)
  /\ ret = Threw(PromptDecodeError)

\* C6: cleanPromptForVidu is idempotent, and its output holds no U+2028 or
\* U+2029, no LF and no CR (a lone CR included), no two spaces in a row and
\* no whitespace at either end.
C6_SanitizedAndIdempotent ==
  Applied("cleanPromptForVidu") =>
    /\ cleanPromptForVidu(ret.value.s) = ret.value.s
    /\ Sanitized(ret.value.s)

C6_Witness ==
  /\ Applied("cleanPromptForVidu")
  /\ arg = Str(<<97, CR, LS, 97>>)
  /\ ret = Returned(Str(<<97, SP, 97>>))

\* C7: clampDuration gives 4 for an absent, NaN or infinite value and the
\* value clamped into [1, 8] otherwise; the result is always within [1, 8].
C7_ClampDuration ==
  Applied("clampDuration") =>
    /\ ret.threw = FALSE
    /\ ret.value \in {Finite(v) : v \in 10..80}
    /\ arg \in {Undefined, NaN, PosInfinity, NegInfinity} => ret.value = Finite(40)
    /\ (IsNumber(arg) /\ arg.k = "finite") =>
         ret.value = Finite(IF arg.v < 10 THEN 10 ELSE IF arg.v > 80 THEN 80 ELSE arg.v)
    /\ arg = Finite(0) => ret.value = Finite(10)
    /\ arg = Finite(85) => ret.value = Finite(80)
    /\ arg = Finite(40) => ret.value = Finite(40)

C7_Witness ==
  /\ Applied("clampDuration")
  /\ arg = PosInfinity
  /\ ret = Returned(Finite(40))

====
